---- MODULE Spec2Model ----
(***************************************************************************)
(* koa-bouncer (src/index.js): the Validator chain state machine, the      *)
(* optional-skip wrapper, the built-in chain operations and the            *)
(* per-request middleware (ValueStore + validator cache).                  *)
(*                                                                         *)
(* JavaScript values are records [t, b, s, a]:                             *)
(*   t  the type tag ("undefined", "null", "boolean", "number", "string",  *)
(*      "array", "object"),                                                *)
(*   b  the boolean payload (for a number: TRUE when it is negative),      *)
(*   s  the characters of a string, one per element (for a number: its     *)
(*      decimal digits, or <<"NaN">>; for an object: a tag),               *)
(*   a  the elements of an array.                                          *)
(* Numbers are kept as digit sequences so that the safe-integer range      *)
(* (2^53 - 1) is compared exactly.                                         *)
(***************************************************************************)
EXTENDS Integers, Sequences, FiniteSets, TLC

VARIABLES started, raw, vals, validators, heap, cur, log

vars == <<started, raw, vals, validators, heap, cur, log>>

(***************************************************************************)
(* Bounds of the model.                                                    *)
(***************************************************************************)
\* the longest chain expression (operations after the lookup) that is traced
MaxChain == 3
\* the number of concurrent middleware invocations (requests)
NumSessions == 2

Sessions == 1..NumSessions
Names == {"age", "x"}
Sources == {"params", "query", "body"}

(***************************************************************************)
(* Values.                                                                 *)
(***************************************************************************)
V(t, b, s, a) == [t |-> t, b |-> b, s |-> s, a |-> a]
Undef == V("undefined", FALSE, <<>>, <<>>)
Null == V("null", FALSE, <<>>, <<>>)
Bool(b) == V("boolean", b, <<>>, <<>>)
Str(chars) == V("string", FALSE, chars, <<>>)
Arr(elems) == V("array", FALSE, <<>>, elems)
NumD(neg, digits) == V("number", neg, digits, <<>>)
NaN == V("number", FALSE, <<"NaN">>, <<>>)
Obj(tag) == V("object", FALSE, <<tag>>, <<>>)

DigitChars == <<"0", "1", "2", "3", "4", "5", "6", "7", "8", "9">>
Digit == {DigitChars[i] : i \in 1..10}
DigitVal(c) == CHOOSE i \in 0..9 : DigitChars[i + 1] = c

RECURSIVE NatDigits(_)
NatDigits(n) == IF n < 10 THEN <<DigitChars[n + 1]>>
                ELSE Append(NatDigits(n \div 10), DigitChars[(n % 10) + 1])
\* the number literal n of the source text
Num(n) == IF n < 0 THEN NumD(TRUE, NatDigits(0 - n)) ELSE NumD(FALSE, NatDigits(n))

\* _.isUndefined, _.isString, _.isArray, _.isNumber, _.isFunction (lodash)
IsUndefined(x) == x.t = "undefined"
IsString(x) == x.t = "string"
IsArray(x) == x.t = "array"
IsNumber(x) == x.t = "number"
IsNaN(x) == x.t = "number" /\ x.s = <<"NaN">>
IsZero(x) == x.t = "number" /\ x.s = <<"0">>

\* ToBoolean of the language: !x is ~Truthy(x)
Truthy(x) ==
  CASE x.t = "undefined" -> FALSE
    [] x.t = "null" -> FALSE
    [] x.t = "boolean" -> x.b
    [] x.t = "number" -> ~IsNaN(x) /\ ~IsZero(x)
    [] x.t = "string" -> x.s # <<>>
    [] OTHER -> TRUE

\* a || b
OrElse(a, b) == IF Truthy(a) THEN a ELSE b

(***************************************************************************)
(* Numbers: comparison and the safe-integer range.                         *)
(***************************************************************************)
RECURSIVE DigitsLess(_, _)
DigitsLess(x, y) ==
  IF x = <<>> \/ y = <<>> THEN FALSE
  ELSE IF Head(x) # Head(y) THEN DigitVal(Head(x)) < DigitVal(Head(y))
  ELSE DigitsLess(Tail(x), Tail(y))

RECURSIVE FracLess(_, _)
\* .x < .y for two fractions without trailing zeros
FracLess(x, y) ==
  IF y = <<>> THEN FALSE
  ELSE IF x = <<>> THEN TRUE
  ELSE IF Head(x) # Head(y) THEN DigitVal(Head(x)) < DigitVal(Head(y))
  ELSE FracLess(Tail(x), Tail(y))

RECURSIVE UpTo(_, _)
\* the characters before the first c
UpTo(chars, c) ==
  IF chars = <<>> \/ Head(chars) = c THEN <<>>
  ELSE <<Head(chars)>> \o UpTo(Tail(chars), c)

IntPart(digits) == UpTo(digits, ".")
FracPart(digits) ==
  IF Len(IntPart(digits)) = Len(digits) THEN <<>>
  ELSE SubSeq(digits, Len(IntPart(digits)) + 2, Len(digits))

\* |x| < |y| for two magnitudes without leading zeros
MagLess(x, y) ==
  \/ Len(IntPart(x)) < Len(IntPart(y))
  \/ /\ Len(IntPart(x)) = Len(IntPart(y))
     /\ \/ DigitsLess(IntPart(x), IntPart(y))
        \/ IntPart(x) = IntPart(y) /\ FracLess(FracPart(x), FracPart(y))

\* a < b on numbers (false when either is NaN)
NumLess(a, b) ==
  IF IsNaN(a) \/ IsNaN(b) THEN FALSE
  ELSE IF a.b /\ ~b.b THEN TRUE
  ELSE IF ~a.b /\ b.b THEN FALSE
  ELSE IF a.b THEN MagLess(b.s, a.s)
  ELSE MagLess(a.s, b.s)

NumEq(a, b) == ~IsNaN(a) /\ ~IsNaN(b) /\ a = b
NumLeq(a, b) == NumLess(a, b) \/ NumEq(a, b)

\* Number.MAX_SAFE_INTEGER = 2^53 - 1 = 9007199254740991
MAX_SAFE_INTEGER ==
  NumD(FALSE, <<"9","0","0","7","1","9","9","2","5","4","7","4","0","9","9","1">>)
MIN_SAFE_INTEGER == [MAX_SAFE_INTEGER EXCEPT !.b = TRUE]

isSafeInteger(n) == NumLeq(MIN_SAFE_INTEGER, n) /\ NumLeq(n, MAX_SAFE_INTEGER)

(***************************************************************************)
(* Strings: character classes, coercion and parsing.                       *)
(***************************************************************************)
Lower == {"a","b","c","d","e","f","g","h","i","j","k","l","m",
          "n","o","p","q","r","s","t","u","v","w","x","y","z"}
Upper == {"A","B","C","D","E","F","G","H","I","J","K","L","M",
          "N","O","P","Q","R","S","T","U","V","W","X","Y","Z"}
Letter == Lower \cup Upper
HexDigit == Digit \cup {"a","b","c","d","e","f","A","B","C","D","E","F"}
WhiteSpace == {" ", "\t", "\n"}
Punct == {"-", "+", ",", ".", "@", "#", "[", "]", "{", "}", ":", "=", "/", "_", "\""}
\* the characters \x00-\x7F that occur in the model
Ascii == Digit \cup Letter \cup WhiteSpace \cup Punct

AllIn(chars, class) == \A i \in 1..Len(chars) : chars[i] \in class

RECURSIVE Join(_)
\* Array.prototype.join(","), on the string forms of the elements
Join(parts) ==
  IF parts = <<>> THEN <<>>
  ELSE IF Len(parts) = 1 THEN parts[1]
  ELSE parts[1] \o <<",">> \o Join(Tail(parts))

\* String(x) for a value that is not an array
ScalarChars(x) ==
  CASE x.t = "undefined" -> <<"u","n","d","e","f","i","n","e","d">>
    [] x.t = "null" -> <<"n","u","l","l">>
    [] x.t = "boolean" -> IF x.b THEN <<"t","r","u","e">> ELSE <<"f","a","l","s","e">>
    [] x.t = "number" -> IF IsNaN(x) THEN <<"N","a","N">>
                         ELSE (IF x.b THEN <<"-">> ELSE <<>>) \o x.s
    [] x.t = "string" -> x.s
    [] OTHER -> <<"[","o","b","j","e","c","t"," ","O","b","j","e","c","t","]">>

\* an array element inside join(): null and undefined give the empty string
ElemChars(x) == IF x.t \in {"undefined", "null"} THEN <<>> ELSE ScalarChars(x)

\* String(x), x.toString(): the characters of the string form of x
ToChars(x) ==
  IF x.t = "array" THEN Join([i \in 1..Len(x.a) |-> ElemChars(x.a[i])])
  ELSE ScalarChars(x)

\* validator's own toString(input), applied by v.isInt / v.isFloat to their
\* input: null, undefined and NaN give '', anything else its string form
vToString(x) ==
  IF x.t \in {"undefined", "null"} \/ IsNaN(x) THEN <<>> ELSE ToChars(x)

\* /^(?:[-+]?(?:0|[1-9][0-9]*))$/
IntPattern(chars) ==
  LET body == IF chars # <<>> /\ Head(chars) \in {"-", "+"} THEN Tail(chars) ELSE chars
  IN  /\ body # <<>>
      /\ AllIn(body, Digit)
      /\ (Head(body) = "0" => Len(body) = 1)

\* v.isInt(x)
vIsInt(x) == IntPattern(vToString(x))

RECURSIVE DropWhile(_, _)
DropWhile(chars, class) ==
  IF chars # <<>> /\ Head(chars) \in class THEN DropWhile(Tail(chars), class) ELSE chars

RECURSIVE TakeWhile(_, _)
TakeWhile(chars, class) ==
  IF chars # <<>> /\ Head(chars) \in class
  THEN <<Head(chars)>> \o TakeWhile(Tail(chars), class) ELSE <<>>

\* the digits without leading zeros ("0" for zero)
Canonical(digits) ==
  LET d == DropWhile(digits, {"0"}) IN IF d = <<>> THEN <<"0">> ELSE d

\* parseInt(x, 10): leading white space, an optional sign, then the longest
\* run of digits; NaN when there is none.  -0 is kept as 0 (they are === equal).
parseInt(x) ==
  LET str == DropWhile(ToChars(x), WhiteSpace)
      neg == str # <<>> /\ Head(str) = "-"
      rest == IF str # <<>> /\ Head(str) \in {"-", "+"} THEN Tail(str) ELSE str
      digs == TakeWhile(rest, Digit)
  IN  IF digs = <<>> THEN NaN
      ELSE NumD(neg /\ Canonical(digs) # <<"0">>, Canonical(digs))

\* String.prototype.trim()
RECURSIVE DropTrailing(_)
DropTrailing(chars) ==
  IF chars # <<>> /\ chars[Len(chars)] \in WhiteSpace
  THEN DropTrailing(SubSeq(chars, 1, Len(chars) - 1)) ELSE chars
Trim(chars) == DropTrailing(DropWhile(chars, WhiteSpace))

\* Number.isInteger(x)
NumberIsInteger(x) == IsNumber(x) /\ ~IsNaN(x) /\ FracPart(x.s) = <<>>
\* Number.isFinite(x)
NumberIsFinite(x) == IsNumber(x) /\ ~IsNaN(x)

\* x === y: an array or an object of the store is never the very object a
\* caller's literal argument is
StrictEq(x, y) ==
  IF IsNaN(x) \/ IsNaN(y) \/ x.t \in {"array", "object", "function", "regexp"}
  THEN FALSE ELSE x = y

\* _.contains(arr, x) (SameValueZero on the elements)
Contains(arr, x) == \E i \in 1..Len(arr.a) : arr.a[i] = x

RECURSIVE Uniq(_)
\* _.uniq(arr): the first occurrence of every element, in order
Uniq(elems) ==
  IF elems = <<>> THEN <<>>
  ELSE LET init == Uniq(SubSeq(elems, 1, Len(elems) - 1))
           lastE == elems[Len(elems)]
       IN  IF \E i \in 1..Len(init) : init[i] = lastE THEN init ELSE Append(init, lastE)

\* /^-?[0-9]*(\.[0-9]*)?$/ on a non-empty string other than "." and "-":
\* the float pattern of v.isFloat without the exponent part
FloatPattern(chars) ==
  LET body == IF chars # <<>> /\ Head(chars) = "-" THEN Tail(chars) ELSE chars
      int == TakeWhile(body, Digit)
      rest == SubSeq(body, Len(int) + 1, Len(body))
  IN  /\ chars # <<>>
      /\ body \notin {<<>>, <<".">>}
      /\ \/ rest = <<>>
         \/ Head(rest) = "." /\ AllIn(Tail(rest), Digit)

\* v.isFloat(x)
vIsFloat(x) == FloatPattern(vToString(x))

RECURSIVE DropTrailingZeros(_)
DropTrailingZeros(digits) ==
  IF digits # <<>> /\ digits[Len(digits)] = "0"
  THEN DropTrailingZeros(SubSeq(digits, 1, Len(digits) - 1)) ELSE digits

\* parseFloat(x): an optional sign, digits, an optional fraction; NaN otherwise
parseFloat(x) ==
  LET str == DropWhile(ToChars(x), WhiteSpace)
      neg == str # <<>> /\ Head(str) = "-"
      rest == IF str # <<>> /\ Head(str) \in {"-", "+"} THEN Tail(str) ELSE str
      int == TakeWhile(rest, Digit)
      after == SubSeq(rest, Len(int) + 1, Len(rest))
      frac == IF after # <<>> /\ Head(after) = "."
              THEN DropTrailingZeros(TakeWhile(Tail(after), Digit)) ELSE <<>>
      mag == Canonical(int) \o (IF frac = <<>> THEN <<>> ELSE <<".">> \o frac)
  IN  IF int = <<>> /\ frac = <<>> THEN NaN
      ELSE NumD(neg /\ mag # <<"0">>, mag)

RECURSIVE Split(_, _)
\* String.prototype.split(c)
Split(chars, c) ==
  LET first == UpTo(chars, c)
  IN  IF Len(first) = Len(chars) THEN <<chars>>
      ELSE <<first>> \o Split(SubSeq(chars, Len(first) + 2, Len(chars)), c)

\* JSON.parse of one scalar token: null, true, false, an integer or a string
\* literal without escapes; ok is FALSE for a SyntaxError
JsonScalar(chars) ==
  CASE chars = <<"n","u","l","l">> -> [ok |-> TRUE, val |-> Null]
    [] chars = <<"t","r","u","e">> -> [ok |-> TRUE, val |-> Bool(TRUE)]
    [] chars = <<"f","a","l","s","e">> -> [ok |-> TRUE, val |-> Bool(FALSE)]
    [] chars # <<>> /\ Head(chars) # "+" /\ IntPattern(chars) ->
         [ok |-> TRUE, val |-> parseInt(Str(chars))]
    [] Len(chars) >= 2 /\ Head(chars) = "\"" /\ chars[Len(chars)] = "\""
         /\ AllIn(SubSeq(chars, 2, Len(chars) - 1), Ascii \ {"\"", "\n", "\t"}) ->
         [ok |-> TRUE, val |-> Str(SubSeq(chars, 2, Len(chars) - 1))]
    [] OTHER -> [ok |-> FALSE, val |-> Undef]

\* JSON.parse(x) on the string form of x: a scalar or a flat array of scalars
JsonParse(x) ==
  LET text == Trim(ToChars(x))
      isArr == Len(text) >= 2 /\ Head(text) = "[" /\ text[Len(text)] = "]"
      inner == IF isArr THEN Trim(SubSeq(text, 2, Len(text) - 1)) ELSE <<>>
      parts == Split(inner, ",")
      elems == [i \in 1..Len(parts) |-> JsonScalar(Trim(parts[i]))]
  IN  IF ~isArr THEN JsonScalar(text)
      ELSE IF inner = <<>> THEN [ok |-> TRUE, val |-> Arr(<<>>)]
      ELSE IF \A i \in 1..Len(elems) : elems[i].ok
           THEN [ok |-> TRUE, val |-> Arr([i \in 1..Len(elems) |-> elems[i].val])]
           ELSE [ok |-> FALSE, val |-> Undef]

\* /^[0-9A-F]{8}-[0-9A-F]{4}-V[0-9A-F]{3}-W[0-9A-F]{3}-[0-9A-F]{12}$/i, where
\* V and W are the version's character classes (lines 505-510)
UuidPattern(chars, version) ==
  LET vclass == CASE version = "v3" -> {"3"} [] version = "v4" -> {"4"}
                  [] version = "v5" -> {"5"} [] OTHER -> HexDigit
      wclass == IF version \in {"v4", "v5"} THEN {"8", "9", "a", "b", "A", "B"}
                ELSE HexDigit
  IN  /\ Len(chars) = 36
      /\ \A i \in 1..36 :
           CASE i \in {9, 14, 19, 24} -> chars[i] = "-"
             [] i = 15 -> chars[i] \in vclass
             [] i = 20 -> chars[i] \in wclass
             [] OTHER -> chars[i] \in HexDigit

\* v.isHexColor(str): /^#?([0-9A-F]{3}|[0-9A-F]{6})$/i
vIsHexColor(chars) ==
  LET body == IF chars # <<>> /\ Head(chars) = "#" THEN Tail(chars) ELSE chars
  IN  Len(body) \in {3, 6} /\ AllIn(body, HexDigit)

Base64Char == Digit \cup Letter \cup {"+", "/"}
\* v.isBase64(str): groups of four base64 characters, the last one padded
\* with one or two "="
vIsBase64(chars) ==
  LET n == Len(chars)
  IN  /\ n > 0 /\ n % 4 = 0
      /\ AllIn(SubSeq(chars, 1, n - 2), Base64Char)
      /\ \/ chars[n - 1] \in Base64Char /\ chars[n] \in Base64Char \cup {"="}
         \/ chars[n - 1] = "=" /\ chars[n] = "="

\* v.isEmail(str), on the addresses of the model: one "@", a non-empty local
\* part and a dotted domain of non-empty labels
vIsEmail(chars) ==
  LET parts == Split(chars, "@")
      labels == IF Len(parts) = 2 THEN Split(parts[2], ".") ELSE <<>>
  IN  /\ Len(parts) = 2
      /\ parts[1] # <<>> /\ AllIn(parts[1], Digit \cup Letter \cup {".", "_", "-", "+"})
      /\ Len(labels) >= 2
      /\ \A i \in 1..Len(labels) :
           labels[i] # <<>> /\ AllIn(labels[i], Digit \cup Letter \cup {"-"})

(***************************************************************************)
(* Arguments a caller passes: functions and regular expressions.           *)
(***************************************************************************)
Fn(tag) == V("function", FALSE, <<tag>>, <<>>)
RegExp(tag) == V("regexp", FALSE, <<tag>>, <<>>)
IsFunction(x) == x.t = "function"
IsRegExp(x) == x.t = "regexp"

\* regexp.test(str) for the patterns of the model: /^[0-9]+$/ and /x/
RegExpTest(re, chars) ==
  IF re = RegExp("digits") THEN chars # <<>> /\ AllIn(chars, Digit)
  ELSE \E i \in 1..Len(chars) : chars[i] = "x"

(***************************************************************************)
(* ValidationError (lines 19-27) and the other faults.                     *)
(***************************************************************************)
\* a message text is a string value whose elements are pieces of text
Msg(parts) == Str(parts)

ValidationError(key, message) ==
  [name |-> "ValidationError", key |-> key, message |-> message]
\* what better-assert's assert(false) throws
AssertionError == [name |-> "AssertionError", key |-> Undef, message |-> Undef]
\* what a property access on undefined or null throws
TypeError == [name |-> "TypeError", key |-> Undef, message |-> Undef]
\* a fault of the caller's own code
UserError == [name |-> "Error", key |-> Undef, message |-> Msg(<<"boom">>)]
NoError == [name |-> "none", key |-> Undef, message |-> Undef]

\* Number(x): a number is itself, null and false are 0, true is 1, undefined
\* is NaN, and a string or an array is read from its trimmed string form
\* ('' is 0, an integer literal its value, any other text of the model NaN)
ToNumber(x) ==
  CASE IsNumber(x) -> x
    [] x.t = "null" -> Num(0)
    [] x.t = "boolean" -> IF x.b THEN Num(1) ELSE Num(0)
    [] x.t \in {"string", "array"} ->
         IF Trim(ToChars(x)) = <<>> THEN Num(0)
         ELSE IF IntPattern(Trim(ToChars(x))) THEN parseInt(Str(Trim(ToChars(x))))
         ELSE NaN
    [] OTHER -> NaN

\* f(x) for the caller's functions of the model
ApplyFn(f, x) ==
  CASE f = Fn("identity") -> [out |-> "return", val |-> x, err |-> NoError]
    [] f = Fn("seven") -> [out |-> "return", val |-> Num(7), err |-> NoError]
    [] f = Fn("nothing") -> [out |-> "return", val |-> Undef, err |-> NoError]
    [] f = Fn("Number") -> [out |-> "return", val |-> ToNumber(x), err |-> NoError]
    [] f = Fn("throwsValidationError") ->
         [out |-> "throw", val |-> Undef,
          err |-> ValidationError(Msg(<<"other">>), Msg(<<"inner message">>))]
    [] OTHER -> [out |-> "throw", val |-> Undef, err |-> UserError]

(***************************************************************************)
(* Validator (lines 29-56).  me = [id, key, val, opt]: the validator's     *)
(* key, this.val() (the store entry it views) and this._isOptional.        *)
(* An operation yields [out, err, val, opt, skipped]: how the call ended,  *)
(* what it threw, and the store entry and the flag it leaves.              *)
(***************************************************************************)
Return(me) ==
  [out |-> "return", err |-> NoError, val |-> me.val, opt |-> me.opt, skipped |-> FALSE]
Throw(me, err) ==
  [out |-> "throw", err |-> err, val |-> me.val, opt |-> me.opt, skipped |-> FALSE]

KeyStr(me) == Msg(<<me.key>>)

\* this.throwError(tip), lines 34-36
throwError(me, tip) ==
  Throw(me, ValidationError(KeyStr(me),
                            OrElse(tip, Msg(<<"Invalid value for ", me.key>>))))

\* mutant: isOptional() never clears the flag
isOptional_Sticky(me) == me.opt

\* this.isOptional(), lines 43-48: the value of _isOptional it leaves and returns
isOptional(me) == IF me.opt /\ ~IsUndefined(me.val) THEN FALSE ELSE me.opt

\* the validator as the wrapped function sees it, after the isOptional() call
Cleared(me) == [me EXCEPT !.opt = isOptional(me)]

\* mutant: the wrapper never skips
optionalFn_NoSkip(me, result) == result

\* optionalFn(fn), lines 62-71: result is what fn does on Cleared(me)
optionalFn(me, result) ==
  IF isOptional(me)
  THEN [out |-> "return", err |-> NoError, val |-> me.val,
        opt |-> isOptional(me), skipped |-> TRUE]
  ELSE result

\* assert(cond) followed by the rest of the function
Asserted(me, cond, rest) == IF cond THEN rest ELSE Throw(me, AssertionError)

\* mutant: required registered through addMethod, so that it is skipped too
required_Wrapped(me, tip) ==
  optionalFn(me,
    IF IsUndefined(me.val)
    THEN throwError(me, OrElse(tip, Msg(<<me.key, " must not be empty">>)))
    ELSE Return(Cleared(me)))

\* lines 84-89
required(me, tip) ==
  IF IsUndefined(me.val)
  THEN throwError(me, OrElse(tip, Msg(<<me.key, " must not be empty">>)))
  ELSE Return(me)

\* mutant: optional() sets the flag whatever the value
optional_Always(me) == Return([me EXCEPT !.opt = TRUE])

\* lines 91-96
optional(me) ==
  IF IsUndefined(me.val) THEN Return([me EXCEPT !.opt = TRUE]) ELSE Return(me)

(***************************************************************************)
(* The methods registered with Validator.addMethod (lines 75-77): each is  *)
(* optionalFn applied to the function of the source.                       *)
(***************************************************************************)
\* lines 98-103
isIn(me, arr, tip) ==
  LET my == Cleared(me)
  IN  optionalFn(me,
        Asserted(my, IsArray(arr),
          IF ~Contains(arr, my.val)
          THEN throwError(my, OrElse(tip, Msg(<<"Invalid ", my.key>>)))
          ELSE Return(my)))

\* lines 106-111
isNotIn(me, arr, tip) ==
  LET my == Cleared(me)
  IN  optionalFn(me,
        Asserted(my, IsArray(arr),
          IF Contains(arr, my.val)
          THEN throwError(my, OrElse(tip, Msg(<<"Invalid ", my.key>>)))
          ELSE Return(my)))

\* lines 114-118
isArray(me, tip) ==
  LET my == Cleared(me)
  IN  optionalFn(me,
        IF ~IsArray(my.val)
        THEN throwError(my, OrElse(tip, Msg(<<my.key, " must be an array">>)))
        ELSE Return(my))

\* lines 121-125
eq(me, otherValue, tip) ==
  LET my == Cleared(me)
  IN  optionalFn(me,
        IF ~StrictEq(my.val, otherValue)
        THEN throwError(my, OrElse(tip, Msg(<<"Invalid ", my.key>>)))
        ELSE Return(my))

\* lines 128-136
gt(me, otherValue, tip) ==
  LET my == Cleared(me)
  IN  optionalFn(me,
        Asserted(my, IsNumber(my.val),
        Asserted(my, IsNumber(otherValue),
          IF NumLeq(my.val, otherValue)
          THEN throwError(my, OrElse(tip, Msg(<<"Invalid ", my.key>>)))
          ELSE Return(my))))

\* lines 139-147
gte(me, otherValue, tip) ==
  LET my == Cleared(me)
  IN  optionalFn(me,
        Asserted(my, IsNumber(my.val),
        Asserted(my, IsNumber(otherValue),
          IF NumLess(my.val, otherValue)
          THEN throwError(my, OrElse(tip, Msg(<<"Invalid ", my.key>>)))
          ELSE Return(my))))

\* lines 150-158
lt(me, otherValue, tip) ==
  LET my == Cleared(me)
  IN  optionalFn(me,
        Asserted(my, IsNumber(my.val),
        Asserted(my, IsNumber(otherValue),
          IF NumLeq(otherValue, my.val)
          THEN throwError(my, OrElse(tip, Msg(<<"Invalid ", my.key>>)))
          ELSE Return(my))))

\* lines 161-169
lte(me, otherValue, tip) ==
  LET my == Cleared(me)
  IN  optionalFn(me,
        Asserted(my, IsNumber(my.val),
        Asserted(my, IsNumber(otherValue),
          IF NumLess(otherValue, my.val)
          THEN throwError(my, OrElse(tip, Msg(<<"Invalid ", my.key>>)))
          ELSE Return(my))))

\* this.val().length: a TypeError on undefined and null, the length of a
\* string or an array, undefined for anything else
HasLength(x) == x.t \in {"string", "array"}
LengthOf(x) == IF x.t = "string" THEN Num(Len(x.s)) ELSE Num(Len(x.a))

\* lines 175-188
isLength(me, min, max, tip) ==
  LET my == Cleared(me)
  IN  optionalFn(me,
        IF my.val.t \in {"undefined", "null"} THEN Throw(my, TypeError)
        ELSE
        Asserted(my, HasLength(my.val),
        Asserted(my, NumberIsInteger(min),
        Asserted(my, NumberIsInteger(max),
        Asserted(my, NumLeq(min, max),
          IF NumLess(LengthOf(my.val), min) \/ NumLess(max, LengthOf(my.val))
          THEN throwError(my, OrElse(tip,
                 Msg(<<my.key, " must be ">> \o ToChars(min) \o <<"-">>
                     \o ToChars(max) \o <<" characters long">>)))
          ELSE Return(my))))))

\* lines 192-205; a function argument is called and what it throws propagates
defaultTo(me, valueOrFunction) ==
  LET my == Cleared(me)
      called == ApplyFn(valueOrFunction, Undef)
  IN  optionalFn(me,
        IF IsUndefined(my.val)
        THEN IF IsFunction(valueOrFunction)
             THEN IF called.out = "throw" THEN Throw(my, called.err)
                  ELSE Return([my EXCEPT !.val = called.val])
             ELSE Return([my EXCEPT !.val = valueOrFunction])
        ELSE Return(my))

\* lines 207-213
isString(me, tip) ==
  LET my == Cleared(me)
  IN  optionalFn(me,
        IF ~IsString(my.val)
        THEN throwError(my, OrElse(tip, Msg(<<my.key, " must be a string">>)))
        ELSE Return(my))

\* lines 216-226
isInt(me, tip) ==
  LET my == Cleared(me)
  IN  optionalFn(me,
        IF ~NumberIsInteger(my.val)
        THEN throwError(my, OrElse(tip, Msg(<<my.key, " must be an integer">>)))
        ELSE IF ~isSafeInteger(my.val)
        THEN throwError(my, OrElse(tip, Msg(<<my.key, " is out of integer range">>)))
        ELSE Return(my))

\* mutant: toInt stores the parsed number before the range check
toInt_StoreFirst(me, tip) ==
  LET my == Cleared(me)
      num == parseInt(my.val)
  IN  optionalFn(me,
        IF ~vIsInt(my.val)
        THEN throwError(my, OrElse(tip, Msg(<<my.key, " must be an integer">>)))
        ELSE IF ~isSafeInteger(num)
        THEN throwError([my EXCEPT !.val = num],
                        OrElse(tip, Msg(<<my.key, " is out of integer range">>)))
        ELSE Return([my EXCEPT !.val = num]))

\* mutant: toInt checks the value and does not store the number
toInt_NoStore(me, tip) ==
  LET my == Cleared(me)
      num == parseInt(my.val)
  IN  optionalFn(me,
        IF ~vIsInt(my.val)
        THEN throwError(my, OrElse(tip, Msg(<<my.key, " must be an integer">>)))
        ELSE IF ~isSafeInteger(num)
        THEN throwError(my, OrElse(tip, Msg(<<my.key, " is out of integer range">>)))
        ELSE Return(my))

\* lines 230-243
toInt(me, tip) ==
  LET my == Cleared(me)
      num == parseInt(my.val)
  IN  optionalFn(me,
        IF ~vIsInt(my.val)
        THEN throwError(my, OrElse(tip, Msg(<<my.key, " must be an integer">>)))
        ELSE IF ~isSafeInteger(num)
        THEN throwError(my, OrElse(tip, Msg(<<my.key, " is out of integer range">>)))
        ELSE Return([my EXCEPT !.val = num]))

\* lines 250-255
isFiniteNumber(me, tip) ==
  LET my == Cleared(me)
  IN  optionalFn(me,
        IF ~NumberIsFinite(my.val)
        THEN throwError(my, OrElse(tip, Msg(<<my.key, " must be a number">>)))
        ELSE Return(my))

\* mutant: toArray without the _.isArray test of line 261
toArray_AlwaysWraps(me) ==
  LET my == Cleared(me)
      val1 == IF IsUndefined(my.val) THEN Arr(<<>>) ELSE my.val
  IN  optionalFn(me, Return([my EXCEPT !.val = Arr(<<val1>>)]))

\* lines 258-264
toArray(me) ==
  LET my == Cleared(me)
      val1 == IF IsUndefined(my.val) THEN Arr(<<>>) ELSE my.val
      val2 == IF IsArray(val1) THEN val1 ELSE Arr(<<val1>>)
  IN  optionalFn(me, Return([my EXCEPT !.val = val2]))

\* mutant: toInts without the range check of lines 284-286
toInts_NoRange(me, tip) ==
  LET my == Cleared(me)
      elems == my.val.a
      results == [i \in 1..Len(elems) |-> parseInt(elems[i])]
  IN  optionalFn(me,
        Asserted(my, IsArray(my.val),
          IF ~(\A i \in 1..Len(elems) : vIsInt(elems[i]))
          THEN throwError(my, OrElse(tip, Msg(<<my.key, " must be an array of integers">>)))
          ELSE Return([my EXCEPT !.val = Arr(results)])))

\* lines 273-290
toInts(me, tip) ==
  LET my == Cleared(me)
      elems == my.val.a
      results == [i \in 1..Len(elems) |-> parseInt(elems[i])]
  IN  optionalFn(me,
        Asserted(my, IsArray(my.val),
          IF ~(\A i \in 1..Len(elems) : vIsInt(elems[i]))
          THEN throwError(my, OrElse(tip, Msg(<<my.key, " must be an array of integers">>)))
          ELSE IF ~(\A i \in 1..Len(results) : isSafeInteger(results[i]))
          THEN throwError(my, OrElse(tip,
                 Msg(<<my.key, " must not contain numbers out of integer range">>)))
          ELSE Return([my EXCEPT !.val = Arr(results)])))

\* lines 293-297
uniq(me) ==
  LET my == Cleared(me)
  IN  optionalFn(me,
        Asserted(my, IsArray(my.val),
          Return([my EXCEPT !.val = Arr(Uniq(my.val.a))])))

\* lines 301-304
toBoolean(me) ==
  LET my == Cleared(me)
  IN  optionalFn(me, Return([my EXCEPT !.val = Bool(Truthy(my.val))]))

\* lines 307-313
toFloat(me, tip) ==
  LET my == Cleared(me)
  IN  optionalFn(me,
        IF ~vIsFloat(my.val)
        THEN throwError(my, OrElse(tip, Msg(<<my.key, " must be a float">>)))
        ELSE Return([my EXCEPT !.val = parseFloat(my.val)]))

\* lines 318-321: (this.val() && this.val().toString() || '')
toString(me) ==
  LET my == Cleared(me)
      str == IF Truthy(my.val) THEN Str(ToChars(my.val)) ELSE my.val
  IN  optionalFn(me, Return([my EXCEPT !.val = OrElse(str, Str(<<>>))]))

\* lines 327-331
trim(me) ==
  LET my == Cleared(me)
  IN  optionalFn(me,
        Asserted(my, IsString(my.val),
          Return([my EXCEPT !.val = Str(Trim(my.val.s))])))

\* lines 334-342
match(me, regexp, tip) ==
  LET my == Cleared(me)
  IN  optionalFn(me,
        Asserted(my, IsString(my.val),
        Asserted(my, IsRegExp(regexp),
          IF ~RegExpTest(regexp, my.val.s)
          THEN throwError(my, OrElse(tip, Msg(<<"Invalid ", my.key>>)))
          ELSE Return(my))))

\* lines 345-353
notMatch(me, regexp, tip) ==
  LET my == Cleared(me)
  IN  optionalFn(me,
        Asserted(my, IsString(my.val),
        Asserted(my, IsRegExp(regexp),
          IF RegExpTest(regexp, my.val.s)
          THEN throwError(my, OrElse(tip, Msg(<<"Invalid ", my.key>>)))
          ELSE Return(my))))

\* lines 355-360
check(me, result, tip) ==
  LET my == Cleared(me)
  IN  optionalFn(me, IF ~Truthy(result) THEN throwError(my, tip) ELSE Return(my))

\* lines 362-367
checkNot(me, result, tip) ==
  LET my == Cleared(me)
  IN  optionalFn(me, IF Truthy(result) THEN throwError(my, tip) ELSE Return(my))

\* lines 369-379
fromJson(me, tip) ==
  LET my == Cleared(me)
      parsedObj == JsonParse(my.val)
  IN  optionalFn(me,
        IF ~parsedObj.ok
        THEN throwError(my, OrElse(tip, Msg(<<"Invalid JSON for ", my.key>>)))
        ELSE Return([my EXCEPT !.val = parsedObj.val]))

\* mutant: tap lets the inner ValidationError through
tap_Rethrow(me, f) ==
  LET my == Cleared(me)
      called == ApplyFn(f, my.val)
  IN  optionalFn(me,
        Asserted(my, IsFunction(f),
          IF called.out = "throw" THEN Throw(my, called.err)
          ELSE Return([my EXCEPT !.val = called.val])))

\* lines 385-399
tap(me, f) ==
  LET my == Cleared(me)
      called == ApplyFn(f, my.val)
  IN  optionalFn(me,
        Asserted(my, IsFunction(f),
          IF called.out = "throw"
          THEN IF called.err.name = "ValidationError"
               THEN throwError(my, Undef)
               ELSE Throw(my, called.err)
          ELSE Return([my EXCEPT !.val = called.val])))

\* lines 402-409; what pred throws propagates
checkPred(me, pred, tip) ==
  LET my == Cleared(me)
      called == ApplyFn(pred, my.val)
  IN  optionalFn(me,
        Asserted(my, IsFunction(pred),
          IF called.out = "throw" THEN Throw(my, called.err)
          ELSE IF ~Truthy(called.val) THEN throwError(my, tip)
          ELSE Return(my)))

\* lines 411-418
checkNotPred(me, pred, tip) ==
  LET my == Cleared(me)
      called == ApplyFn(pred, my.val)
  IN  optionalFn(me,
        Asserted(my, IsFunction(pred),
          IF called.out = "throw" THEN Throw(my, called.err)
          ELSE IF Truthy(called.val) THEN throwError(my, tip)
          ELSE Return(my)))

(***************************************************************************)
(* The format validators (lines 424-527).  this.isString(...) inside them  *)
(* is the registered (wrapped) method, called on the same validator.       *)
(***************************************************************************)
\* the validator object itself, passed where a tip is expected (line 436)
This(me) == Obj("Validator")

\* the rest of a method after a nested call that may have thrown
AndThen(nested, rest) == IF nested.out = "throw" THEN nested ELSE rest

\* lines 424-431
isAlpha(me, tip) ==
  LET my == Cleared(me)
      tip1 == OrElse(tip, Msg(<<my.key, " must only contain chars a-z">>))
  IN  optionalFn(me,
        AndThen(isString(my, tip1),
          IF ~AllIn(ToChars(my.val), Letter) THEN throwError(my, tip1) ELSE Return(my)))

\* lines 433-440
isAlphanumeric(me, tip) ==
  LET my == Cleared(me)
      tip1 == OrElse(tip, Msg(<<my.key, " must must be alphanumeric (a-z, 0-9)">>))
  IN  optionalFn(me,
        AndThen(isString(my, This(my)),
          IF ~AllIn(ToChars(my.val), Letter \cup Digit)
          THEN throwError(my, tip1) ELSE Return(my)))

\* lines 442-449
isNumeric(me, tip) ==
  LET my == Cleared(me)
      tip1 == OrElse(tip, Msg(<<my.key, " must must only contain numbers">>))
  IN  optionalFn(me,
        AndThen(isString(my, tip1),
          IF ~AllIn(ToChars(my.val), Digit) THEN throwError(my, tip1) ELSE Return(my)))

\* lines 451-457: no isString call; re.test works on the string form
isAscii(me, tip) ==
  LET my == Cleared(me)
      tip1 == OrElse(tip, Msg(<<my.key, " must contain only ASCII chars">>))
  IN  optionalFn(me,
        IF ~AllIn(ToChars(my.val), Ascii) THEN throwError(my, tip1) ELSE Return(my))

\* lines 459-467
isBase64(me, tip) ==
  LET my == Cleared(me)
      tip1 == OrElse(tip, Msg(<<my.key, " must be base64 encoded">>))
  IN  optionalFn(me,
        AndThen(isString(my, tip1),
          IF Len(my.val.s) = 0 THEN Return(my)
          ELSE IF ~vIsBase64(my.val.s) THEN throwError(my, tip1)
          ELSE Return(my)))

\* lines 470-476
isEmail(me, tip) ==
  LET my == Cleared(me)
      tip1 == OrElse(tip, Msg(<<my.key, " must be a valid email address">>))
  IN  optionalFn(me,
        AndThen(isString(my, tip1),
          IF ~vIsEmail(my.val.s) THEN throwError(my, tip1) ELSE Return(my)))

\* lines 478-484
isHexColor(me, tip) ==
  LET my == Cleared(me)
      tip1 == OrElse(tip, Msg(<<my.key, " must be a hex color">>))
  IN  optionalFn(me,
        AndThen(isString(my, tip1),
          IF ~vIsHexColor(my.val.s) THEN throwError(my, tip1) ELSE Return(my)))

VersionTags == {<<"v","3">>, <<"v","4">>, <<"v","5">>, <<"a","l","l">>}
VersionName(chars) ==
  CASE chars = <<"v","3">> -> "v3" [] chars = <<"v","4">> -> "v4"
    [] chars = <<"v","5">> -> "v5" [] OTHER -> "all"

\* lines 490-516: version1/tip1 are version and tip after lines 491-501,
\* tip2 after line 503; re[version] is undefined for any other key
isUuid(me, version, tip) ==
  LET my == Cleared(me)
      isTip == IsString(version) /\ IsUndefined(tip) /\ version.s \notin VersionTags
      version1 == IF isTip \/ (IsUndefined(version) /\ IsUndefined(tip))
                  THEN Str(<<"a","l","l">>) ELSE version
      tip1 == IF isTip THEN version ELSE tip
      tip2 == OrElse(tip1,
                Msg(<<my.key, " must be a UUID">>
                    \o (IF version1 # Str(<<"a","l","l">>) THEN ToChars(version1) ELSE <<>>)))
  IN  optionalFn(me,
        IF ToChars(version1) \notin VersionTags THEN Throw(my, TypeError)
        ELSE IF ~UuidPattern(ToChars(my.val), VersionName(ToChars(version1)))
        THEN throwError(my, tip2)
        ELSE Return(my))

\* lines 518-527
isJson(me, tip) ==
  LET my == Cleared(me)
      tip1 == OrElse(tip, Msg(<<my.key, " must be JSON">>))
  IN  optionalFn(me,
        AndThen(isString(my, tip1),
          IF ~JsonParse(my.val).ok THEN throwError(my, tip1) ELSE Return(my)))

(***************************************************************************)
(* The state.                                                              *)
(*   started[s]     the middleware has run for request s (lines 546-553)   *)
(*   raw[s]         the request's params, query and body                   *)
(*   vals[s]        this.vals, the ValueStore                              *)
(*   validators[s]  the Map of line 553: name -> validator (0: none)       *)
(*   heap           the Validator objects, by identity: key, owner and     *)
(*                  _isOptional                                            *)
(*   cur[s]         the validator the chain expression being evaluated     *)
(*                  holds (0: none)                                        *)
(*   log[s]         the calls of that chain expression so far, the lookup  *)
(*                  first: the method, its arguments, the validator, the   *)
(*                  store entry and the flag before and after, and how the *)
(*                  call ended                                             *)
(***************************************************************************)
NoVals == [k \in Names |-> Undef]

Entry(op, args, id, created, pre, preOpt, r) ==
  [op |-> op, args |-> args, id |-> id, created |-> created,
   pre |-> pre, preOpt |-> preOpt,
   out |-> r.out, err |-> r.err, post |-> r.val, postOpt |-> r.opt,
   skipped |-> r.skipped]

\* the validator a chain call is made on
Me(s) ==
  [id |-> cur[s], key |-> heap[cur[s]].key,
   val |-> vals[s][heap[cur[s]].key], opt |-> heap[cur[s]].opt]

\* function*(next), lines 546-553: a fresh store and a fresh cache
Middleware(s) ==
  /\ ~started[s]
  /\ started' = [started EXCEPT ![s] = TRUE]
  /\ vals' = [vals EXCEPT ![s] = NoVals]
  /\ validators' = [validators EXCEPT ![s] = [k \in Names |-> 0]]
  /\ UNCHANGED <<raw, heap, cur, log>>

\* mutant: the seed is always read from the request
Seed_FromRequest(s, key, source) == raw[s][source][key]

\* the value a new validator is seeded with (lines 560, 570, 580)
Seed(s, key, source) ==
  IF vals[s][key] = Undef THEN raw[s][source][key] ELSE vals[s][key]

\* mutant: no cache, every lookup constructs a validator
validatorFor_NoCache(s, key, source, op) ==
  /\ started[s]
  /\ Len(heap) < 4
  /\ heap' = Append(heap, [key |-> key, sess |-> s, opt |-> FALSE])
  /\ validators' = [validators EXCEPT ![s][key] = Len(heap) + 1]
  /\ vals' = [vals EXCEPT ![s][key] = Seed(s, key, source)]
  /\ cur' = [cur EXCEPT ![s] = Len(heap) + 1]
  /\ log' = [log EXCEPT ![s] =
       <<Entry(op, <<Msg(<<key>>)>>, Len(heap) + 1, TRUE, vals[s][key], FALSE,
               Return([val |-> Seed(s, key, source), opt |-> FALSE]))>>]
  /\ UNCHANGED <<started, raw>>

\* validators.get(key) || validators.set(key, new Validator({...})).get(key):
\* the constructor (lines 29-56) stores props.val and clears _isOptional
validatorFor(s, key, source, op) ==
  /\ started[s]
  /\ IF validators[s][key] # 0
     THEN /\ cur' = [cur EXCEPT ![s] = validators[s][key]]
          /\ log' = [log EXCEPT ![s] =
               <<Entry(op, <<Msg(<<key>>)>>, validators[s][key], FALSE, vals[s][key],
                       heap[validators[s][key]].opt,
                       Return([val |-> vals[s][key],
                               opt |-> heap[validators[s][key]].opt]))>>]
          /\ UNCHANGED <<vals, validators, heap>>
     ELSE /\ heap' = Append(heap, [key |-> key, sess |-> s, opt |-> FALSE])
          /\ validators' = [validators EXCEPT ![s][key] = Len(heap) + 1]
          /\ vals' = [vals EXCEPT ![s][key] = Seed(s, key, source)]
          /\ cur' = [cur EXCEPT ![s] = Len(heap) + 1]
          /\ log' = [log EXCEPT ![s] =
               <<Entry(op, <<Msg(<<key>>)>>, Len(heap) + 1, TRUE, vals[s][key], FALSE,
                       Return([val |-> Seed(s, key, source), opt |-> FALSE]))>>]
  /\ UNCHANGED <<started, raw>>

\* lines 555-564
validateParam(s, key) == validatorFor(s, key, "params", "validateParam")
\* lines 565-574
validateQuery(s, key) == validatorFor(s, key, "query", "validateQuery")
\* lines 575-585
validateBody(s, key) == validatorFor(s, key, "body", "validateBody")

\* handler code assigning this.vals[key] between two chain expressions
HostWrite(s, key, v) ==
  /\ started[s]
  /\ vals' = [vals EXCEPT ![s][key] = v]
  /\ cur' = [cur EXCEPT ![s] = 0]
  /\ log' = [log EXCEPT ![s] = <<>>]
  /\ UNCHANGED <<started, raw, validators, heap>>

\* mutant: one store shared by all requests, as if this.vals were created
\* once outside the middleware function
Call_SharedStore(s, limit, op, args, r) ==
  /\ started[s]
  /\ cur[s] # 0
  /\ Len(log[s]) <= limit
  /\ vals' = [t \in Sessions |-> [vals[t] EXCEPT ![Me(s).key] = r.val]]
  /\ heap' = [heap EXCEPT ![cur[s]].opt = r.opt]
  /\ cur' = [cur EXCEPT ![s] = IF r.out = "throw" THEN 0 ELSE cur[s]]
  /\ log' = [log EXCEPT ![s] =
       Append(log[s], Entry(op, args, cur[s], FALSE, Me(s).val, Me(s).opt, r))]
  /\ UNCHANGED <<started, raw, validators>>

\* one call of a chain expression of at most limit calls: r is what the
\* method does on Me(s); a throw ends the expression
Call(s, limit, op, args, r) ==
  /\ started[s]
  /\ cur[s] # 0
  /\ Len(log[s]) <= limit
  /\ vals' = [vals EXCEPT ![s][Me(s).key] = r.val]
  /\ heap' = [heap EXCEPT ![cur[s]].opt = r.opt]
  /\ cur' = [cur EXCEPT ![s] = IF r.out = "throw" THEN 0 ELSE cur[s]]
  /\ log' = [log EXCEPT ![s] =
       Append(log[s], Entry(op, args, cur[s], FALSE, Me(s).val, Me(s).opt, r))]
  /\ UNCHANGED <<started, raw, validators>>

\* mutant: validateNot with the test of validate
validateNot_Negated(result, tip) ==
  IF ~Truthy(result)
  THEN [out |-> "throw", err |-> ValidationError(Null, tip)]
  ELSE [out |-> "return", err |-> NoError]

\* this.validate = this.check, lines 586-589
validate(result, tip) ==
  IF ~Truthy(result)
  THEN [out |-> "throw", err |-> ValidationError(Null, tip)]
  ELSE [out |-> "return", err |-> NoError]

\* this.validateNot = this.checkNot, lines 590-593
validateNot(result, tip) ==
  IF Truthy(result)
  THEN [out |-> "throw", err |-> ValidationError(Null, tip)]
  ELSE [out |-> "return", err |-> NoError]

\* a statement of the handler calling a session-level helper: r is how the
\* helper ended; no validator is involved and no chain expression is left
Helper(s, op, args, r) ==
  /\ started[s]
  /\ cur' = [cur EXCEPT ![s] = 0]
  /\ log' = [log EXCEPT ![s] =
       <<Entry(op, args, 0, FALSE, Undef, FALSE,
               [out |-> r.out, err |-> r.err, val |-> Undef, opt |-> FALSE,
                skipped |-> FALSE])>>]
  /\ UNCHANGED <<started, raw, vals, validators, heap>>

(***************************************************************************)
(* The arguments callers pass in the model.                                *)
(***************************************************************************)
Tips == {Undef, Msg(<<"tip">>)}
ArrayArgs == {Arr(<<Num(5), Str(<<"x">>)>>), Str(<<"x">>)}
OtherValues == {Num(5), Str(<<"1","7">>)}
NumberArgs == {Num(0), Num(18), Str(<<"x">>)}
LengthArgs == {Num(1), Num(2)}
Defaults == {Num(5), Fn("seven"), Fn("throwsError")}
RegExpArgs == {RegExp("digits"), Str(<<"x">>)}
Results == {Bool(TRUE), Bool(FALSE)}
Functions == {Fn("identity"), Fn("seven"), Fn("nothing"), Fn("Number"),
              Fn("throwsValidationError"), Fn("throwsError"), Num(5)}
HelperResults == {Bool(TRUE), Bool(FALSE), Num(0), Str(<<"x">>), Undef}
Versions == {Undef, Str(<<"v","3">>), Str(<<"v","4">>), Str(<<"v","5">>),
             Str(<<"a","l","l">>), Msg(<<"not a uuid">>), Num(5)}

(***************************************************************************)
(* The session-level helpers.                                              *)
(***************************************************************************)
Helper_validate(s) ==
  \E result \in HelperResults, tip \in Tips :
    Helper(s, "validate", <<result, tip>>, validate(result, tip))

Helper_validateNot(s) ==
  \E result \in HelperResults, tip \in Tips :
    Helper(s, "validateNot", <<result, tip>>, validateNot(result, tip))

(***************************************************************************)
(* One action per chain method: a call on the validator the chain holds.   *)
(***************************************************************************)
Call_required(s, limit) ==
  \E tip \in Tips :
    Call(s, limit, "required", <<tip>>, required(Me(s), tip))

Call_optional(s, limit) == Call(s, limit, "optional", <<>>, optional(Me(s)))

Call_isIn(s, limit) ==
  \E arr \in ArrayArgs, tip \in Tips :
    Call(s, limit, "isIn", <<arr, tip>>, isIn(Me(s), arr, tip))

Call_isNotIn(s, limit) ==
  \E arr \in ArrayArgs, tip \in Tips :
    Call(s, limit, "isNotIn", <<arr, tip>>, isNotIn(Me(s), arr, tip))

Call_isArray(s, limit) ==
  \E tip \in Tips :
    Call(s, limit, "isArray", <<tip>>, isArray(Me(s), tip))

Call_eq(s, limit) ==
  \E otherValue \in OtherValues, tip \in Tips :
    Call(s, limit, "eq", <<otherValue, tip>>, eq(Me(s), otherValue, tip))

Call_gt(s, limit) ==
  \E otherValue \in NumberArgs, tip \in Tips :
    Call(s, limit, "gt", <<otherValue, tip>>, gt(Me(s), otherValue, tip))

Call_gte(s, limit) ==
  \E otherValue \in NumberArgs, tip \in Tips :
    Call(s, limit, "gte", <<otherValue, tip>>, gte(Me(s), otherValue, tip))

Call_lt(s, limit) ==
  \E otherValue \in NumberArgs, tip \in Tips :
    Call(s, limit, "lt", <<otherValue, tip>>, lt(Me(s), otherValue, tip))

Call_lte(s, limit) ==
  \E otherValue \in NumberArgs, tip \in Tips :
    Call(s, limit, "lte", <<otherValue, tip>>, lte(Me(s), otherValue, tip))

Call_isLength(s, limit) ==
  \E min \in LengthArgs, max \in LengthArgs, tip \in Tips :
    Call(s, limit, "isLength", <<min, max, tip>>, isLength(Me(s), min, max, tip))

Call_defaultTo(s, limit) ==
  \E valueOrFunction \in Defaults :
    Call(s, limit, "defaultTo", <<valueOrFunction>>, defaultTo(Me(s), valueOrFunction))

Call_isString(s, limit) ==
  \E tip \in Tips :
    Call(s, limit, "isString", <<tip>>, isString(Me(s), tip))

Call_isInt(s, limit) ==
  \E tip \in Tips :
    Call(s, limit, "isInt", <<tip>>, isInt(Me(s), tip))

Call_toInt(s, limit) ==
  \E tip \in Tips :
    Call(s, limit, "toInt", <<tip>>, toInt(Me(s), tip))

Call_isFiniteNumber(s, limit) ==
  \E tip \in Tips :
    Call(s, limit, "isFiniteNumber", <<tip>>, isFiniteNumber(Me(s), tip))

Call_toArray(s, limit) == Call(s, limit, "toArray", <<>>, toArray(Me(s)))

Call_toInts(s, limit) ==
  \E tip \in Tips :
    Call(s, limit, "toInts", <<tip>>, toInts(Me(s), tip))

Call_uniq(s, limit) == Call(s, limit, "uniq", <<>>, uniq(Me(s)))

Call_toBoolean(s, limit) == Call(s, limit, "toBoolean", <<>>, toBoolean(Me(s)))

Call_toFloat(s, limit) ==
  \E tip \in Tips :
    Call(s, limit, "toFloat", <<tip>>, toFloat(Me(s), tip))

Call_toString(s, limit) == Call(s, limit, "toString", <<>>, toString(Me(s)))

Call_trim(s, limit) == Call(s, limit, "trim", <<>>, trim(Me(s)))

Call_match(s, limit) ==
  \E regexp \in RegExpArgs, tip \in Tips :
    Call(s, limit, "match", <<regexp, tip>>, match(Me(s), regexp, tip))

Call_notMatch(s, limit) ==
  \E regexp \in RegExpArgs, tip \in Tips :
    Call(s, limit, "notMatch", <<regexp, tip>>, notMatch(Me(s), regexp, tip))

Call_check(s, limit) ==
  \E result \in Results, tip \in Tips :
    Call(s, limit, "check", <<result, tip>>, check(Me(s), result, tip))

Call_checkNot(s, limit) ==
  \E result \in Results, tip \in Tips :
    Call(s, limit, "checkNot", <<result, tip>>, checkNot(Me(s), result, tip))

Call_fromJson(s, limit) ==
  \E tip \in Tips :
    Call(s, limit, "fromJson", <<tip>>, fromJson(Me(s), tip))

Call_tap(s, limit) ==
  \E f \in Functions :
    Call(s, limit, "tap", <<f>>, tap(Me(s), f))

Call_checkPred(s, limit) ==
  \E pred \in Functions, tip \in Tips :
    Call(s, limit, "checkPred", <<pred, tip>>, checkPred(Me(s), pred, tip))

Call_checkNotPred(s, limit) ==
  \E pred \in Functions, tip \in Tips :
    Call(s, limit, "checkNotPred", <<pred, tip>>, checkNotPred(Me(s), pred, tip))

Call_isAlpha(s, limit) ==
  \E tip \in Tips :
    Call(s, limit, "isAlpha", <<tip>>, isAlpha(Me(s), tip))

Call_isAlphanumeric(s, limit) ==
  \E tip \in Tips :
    Call(s, limit, "isAlphanumeric", <<tip>>, isAlphanumeric(Me(s), tip))

Call_isNumeric(s, limit) ==
  \E tip \in Tips :
    Call(s, limit, "isNumeric", <<tip>>, isNumeric(Me(s), tip))

Call_isAscii(s, limit) ==
  \E tip \in Tips :
    Call(s, limit, "isAscii", <<tip>>, isAscii(Me(s), tip))

Call_isBase64(s, limit) ==
  \E tip \in Tips :
    Call(s, limit, "isBase64", <<tip>>, isBase64(Me(s), tip))

Call_isEmail(s, limit) ==
  \E tip \in Tips :
    Call(s, limit, "isEmail", <<tip>>, isEmail(Me(s), tip))

Call_isHexColor(s, limit) ==
  \E tip \in Tips :
    Call(s, limit, "isHexColor", <<tip>>, isHexColor(Me(s), tip))

Call_isUuid(s, limit) ==
  \E version \in Versions, tip \in Tips :
    Call(s, limit, "isUuid", <<version, tip>>, isUuid(Me(s), version, tip))

Call_isJson(s, limit) ==
  \E tip \in Tips :
    Call(s, limit, "isJson", <<tip>>, isJson(Me(s), tip))

(***************************************************************************)
(* Specification Spec: one request, one name, every chain method, each     *)
(* chain expression a lookup followed by one call.                         *)
(***************************************************************************)
NoRaw == [src \in Sources |-> NoVals]

InitIdle ==
  /\ started = [s \in Sessions |-> FALSE]
  /\ vals = [s \in Sessions |-> NoVals]
  /\ validators = [s \in Sessions |-> [k \in Names |-> 0]]
  /\ heap = <<>>
  /\ cur = [s \in Sessions |-> 0]
  /\ log = [s \in Sessions |-> <<>>]

\* n times the character c
Rep(c, n) == [i \in 1..n |-> c]
\* a UUID text whose version digit is ver and whose variant digit is variant
UuidChars(ver, variant) ==
  Rep("a", 8) \o <<"-">> \o Rep("a", 4) \o <<"-", ver>> \o Rep("a", 3)
    \o <<"-", variant>> \o Rep("a", 3) \o <<"-">> \o Rep("a", 12)

\* the raw body values of the request
BodyValues ==
  { Undef, Null, Num(5),
    Str(UuidChars("4", "8")), Str(UuidChars("3", "0")),
    Arr(<<Str(UuidChars("4", "8"))>>),
    Str(<<"1","7">>), Str(<<" ","7"," ">>), Str(<<"x">>),
    Str(<<"9","0","0","7","1","9","9","2","5","4","7","4","0","9","9","2">>),
    Arr(<<Str(<<"1">>), Str(<<"x">>), Str(<<"3">>)>>),
    Arr(<<Str(<<"1">>), Str(<<"2">>), Str(<<"3">>)>>),
    Arr(<<Str(<<"1">>),
          Str(<<"9","0","0","7","1","9","9","2","5","4","7","4","0","9","9","2">>)>>) }

HostValues == {Num(5), Str(<<"x">>)}

Init ==
  /\ InitIdle
  /\ \E v \in BodyValues :
       raw = [s \in Sessions |->
                IF s = 1 THEN [NoRaw EXCEPT !["body"]["age"] = v] ELSE NoRaw]

Next ==
  \/ Middleware(1)
  \/ validateBody(1, "age")
  \/ \E v \in HostValues : HostWrite(1, "age", v)
  \/ Call_required(1, 1)
  \/ Call_optional(1, 1)
  \/ Call_isIn(1, 1)
  \/ Call_isNotIn(1, 1)
  \/ Call_isArray(1, 1)
  \/ Call_eq(1, 1)
  \/ Call_gt(1, 1)
  \/ Call_gte(1, 1)
  \/ Call_lt(1, 1)
  \/ Call_lte(1, 1)
  \/ Call_isLength(1, 1)
  \/ Call_defaultTo(1, 1)
  \/ Call_isString(1, 1)
  \/ Call_isInt(1, 1)
  \/ Call_toInt(1, 1)
  \/ Call_isFiniteNumber(1, 1)
  \/ Call_toArray(1, 1)
  \/ Call_toInts(1, 1)
  \/ Call_uniq(1, 1)
  \/ Call_toBoolean(1, 1)
  \/ Call_toFloat(1, 1)
  \/ Call_toString(1, 1)
  \/ Call_trim(1, 1)
  \/ Call_match(1, 1)
  \/ Call_notMatch(1, 1)
  \/ Call_check(1, 1)
  \/ Call_checkNot(1, 1)
  \/ Call_fromJson(1, 1)
  \/ Call_tap(1, 1)
  \/ Call_checkPred(1, 1)
  \/ Call_checkNotPred(1, 1)
  \/ Call_isAlpha(1, 1)
  \/ Call_isAlphanumeric(1, 1)
  \/ Call_isNumeric(1, 1)
  \/ Call_isAscii(1, 1)
  \/ Call_isBase64(1, 1)
  \/ Call_isEmail(1, 1)
  \/ Call_isHexColor(1, 1)
  \/ Call_isUuid(1, 1)
  \/ Call_isJson(1, 1)

Spec == Init /\ [][Next]_vars

(***************************************************************************)
(* Specification SpecChain: one request, one name, chain expressions of up *)
(* to MaxChain calls of required, optional, defaultTo, toInt, gt and gte.  *)
(***************************************************************************)
ChainBodyValues == {Undef, Str(<<"1","7">>), Str(<<"1","8">>), Str(<<"x">>)}

InitChain ==
  /\ InitIdle
  /\ \E v \in ChainBodyValues :
       raw = [s \in Sessions |->
                IF s = 1 THEN [NoRaw EXCEPT !["body"]["age"] = v] ELSE NoRaw]

NextChain ==
  \/ Middleware(1)
  \/ validateBody(1, "age")
  \/ Call_required(1, MaxChain)
  \/ Call_optional(1, MaxChain)
  \/ Call_defaultTo(1, MaxChain)
  \/ Call_toInt(1, MaxChain)
  \/ Call_gt(1, MaxChain)
  \/ Call_gte(1, MaxChain)

SpecChain == InitChain /\ [][NextChain]_vars

(***************************************************************************)
(* Specification SpecSession: one request with two names, the three        *)
(* lookups, handler writes to the store, and trim / toInt / optional as    *)
(* the chain calls.                                                        *)
(***************************************************************************)
\* a request whose age is p, q and b in params, query and body; every other
\* name is " p ", " q " and " b "
Request(p, q, b) ==
  [src \in Sources |->
     [k \in Names |->
        CASE src = "params" -> IF k = "age" THEN p ELSE Str(<<" ", "p", " ">>)
          [] src = "query" -> IF k = "age" THEN q ELSE Str(<<" ", "q", " ">>)
          [] OTHER -> IF k = "age" THEN b ELSE Str(<<" ", "b", " ">>)]]

SessionRequests ==
  { Request(Str(<<"1">>), Str(<<"2">>), Str(<<"3">>)),
    Request(Undef, Str(<<" ","2">>), Undef),
    Request(Undef, Undef, Str(<<"1","7">>)) }

InitSession ==
  /\ InitIdle
  /\ \E r \in SessionRequests :
       raw = [s \in Sessions |-> IF s = 1 THEN r ELSE NoRaw]

NextSession ==
  \/ Middleware(1)
  \/ \E k \in Names : validateParam(1, k)
  \/ \E k \in Names : validateQuery(1, k)
  \/ \E k \in Names : validateBody(1, k)
  \/ \E k \in Names, v \in HostValues : HostWrite(1, k, v)
  \/ Call_trim(1, 1)
  \/ Call_toInt(1, 1)
  \/ Call_optional(1, 1)
  \/ Helper_validate(1)
  \/ Helper_validateNot(1)

SpecSession == InitSession /\ [][NextSession]_vars

(***************************************************************************)
(* Specification SpecIsolation: every request of Sessions, interleaved;    *)
(* each looks up age in its body and calls optional and toInt on it.       *)
(***************************************************************************)
IsolationBodyValues == {Undef, Str(<<"1","7">>)}

InitIsolation ==
  /\ InitIdle
  /\ \E b \in [Sessions -> IsolationBodyValues] :
       raw = [s \in Sessions |-> [NoRaw EXCEPT !["body"]["age"] = b[s]]]

NextIsolation ==
  \E s \in Sessions :
    \/ Middleware(s)
    \/ validateBody(s, "age")
    \/ Call_optional(s, 1)
    \/ Call_toInt(s, 1)

SpecIsolation == InitIsolation /\ [][NextIsolation]_vars

(***************************************************************************)
(* Properties.                                                             *)
(***************************************************************************)
Lookups == {"validateParam", "validateQuery", "validateBody"}
\* the methods defined directly on the prototype, not through addMethod
Unwrapped == {"required", "optional"}

\* the session-level helpers
Helpers == {"validate", "validateNot"}

IsCall(e) == e.op \notin Lookups \cup Helpers
IsWrappedCall(e) == IsCall(e) /\ e.op \notin Unwrapped

\* the calls of the chain expressions in evaluation
Calls == {e \in UNION {{log[s][i] : i \in 1..Len(log[s])} : s \in Sessions} : IsCall(e)}

\* the chain expression of s is <lookup>.optional().defaultTo(5).gt(0), begun
\* on an absent value
IsOptionalDefaultGt(s) ==
  /\ Len(log[s]) >= 4
  /\ log[s][1].post = Undef
  /\ log[s][2].op = "optional"
  /\ log[s][3].op = "defaultTo" /\ log[s][3].args = <<Num(5)>>
  /\ log[s][4].op = "gt" /\ log[s][4].args[1] = Num(0)

\* C1: from an absent value, optional().defaultTo(5).gt(0) completes without
\* raising, the store holds 5 and gt(0) was executed, not skipped.
C1_OptionalDefaultToGt ==
  \A s \in Sessions :
    IsOptionalDefaultGt(s) =>
      /\ \A i \in 2..4 : log[s][i].out = "return"
      /\ log[s][3].post = Num(5)
      /\ ~log[s][4].skipped
      /\ log[s][4].post = Num(5)

\* what the code does on that chain: defaultTo is itself skipped, the store
\* stays undefined and gt(0) is skipped as well
C1_CodeSkipsDefaultTo ==
  \A s \in Sessions :
    IsOptionalDefaultGt(s) =>
      /\ \A i \in 2..4 : log[s][i].out = "return"
      /\ log[s][3].skipped /\ log[s][4].skipped
      /\ log[s][4].post = Undef

C1_Reached == \E s \in Sessions : IsOptionalDefaultGt(s)

\* C2: with the flag armed and the value still absent, every method
\* registered through addMethod is a no-op: it returns the same validator,
\* raises nothing and leaves the store entry and the flag as they were.
C2_ArmedAbsentIsNoOp ==
  \A s \in Sessions : \A i \in 1..Len(log[s]) :
    LET e == log[s][i]
    IN  (IsWrappedCall(e) /\ e.preOpt /\ e.pre = Undef) =>
          /\ e.out = "return" /\ e.err = NoError
          /\ e.skipped
          /\ e.post = Undef /\ e.postOpt
          /\ (i = Len(log[s]) =>
                /\ cur[s] = e.id
                /\ vals[s][heap[e.id].key] = Undef
                /\ heap[e.id].opt)

C2_Witness ==
  \E s \in Sessions :
    /\ Len(log[s]) = 2
    /\ log[s][2].op = "gt" /\ log[s][2].preOpt /\ log[s][2].pre = Undef
    /\ log[s][2].skipped /\ cur[s] = log[s][2].id

\* C3: required() raises a ValidationError for the validator's name whenever
\* the value is absent, armed flag or not; on a present value it returns the
\* validator and changes neither the store entry nor the flag.
C3_Required ==
  \A s \in Sessions : \A i \in 1..Len(log[s]) :
    LET e == log[s][i]
    IN  e.op = "required" =>
          /\ e.post = e.pre /\ e.postOpt = e.preOpt
          /\ (e.pre = Undef =>
                /\ e.out = "throw"
                /\ e.err.name = "ValidationError"
                /\ e.err.key = Msg(<<heap[e.id].key>>))
          /\ (e.pre # Undef => e.out = "return" /\ e.err = NoError)
          /\ (i = Len(log[s]) =>
                /\ vals[s][heap[e.id].key] = e.pre
                /\ heap[e.id].opt = e.preOpt
                /\ (e.pre # Undef => cur[s] = e.id))

C3_Witness ==
  \E s \in Sessions :
    /\ Len(log[s]) = 2
    /\ log[s][2].op = "required" /\ log[s][2].preOpt /\ log[s][2].pre = Undef
    /\ log[s][2].out = "throw"

\* C4: optional() sets the flag only when the value is absent; a wrapped
\* method called with the flag set and the value present clears the flag and
\* executes; a wrapped method is skipped exactly when, at its call, the flag
\* is set and the value is absent.
C4_OptionalFlag ==
  \A s \in Sessions : \A i \in 1..Len(log[s]) :
    LET e == log[s][i]
    IN  /\ (e.op = "optional" =>
              /\ e.out = "return" /\ e.post = e.pre
              /\ (e.pre = Undef => e.postOpt)
              /\ (e.pre # Undef => e.postOpt = e.preOpt))
        /\ (IsWrappedCall(e) =>
              /\ e.skipped = (e.preOpt /\ e.pre = Undef)
              /\ ((e.preOpt /\ e.pre # Undef) => ~e.postOpt /\ ~e.skipped)
              /\ (i = Len(log[s]) => heap[e.id].opt = e.postOpt))

C4_Witness ==
  \E s \in Sessions :
    /\ Len(log[s]) = 2
    /\ log[s][2].op = "gt" /\ log[s][2].preOpt /\ log[s][2].pre = Num(5)
    /\ ~log[s][2].skipped /\ ~log[s][2].postOpt /\ log[s][2].out = "return"

\* the source a lookup reads
SourceOf(op) ==
  CASE op = "validateParam" -> "params" [] op = "validateQuery" -> "query"
    [] OTHER -> "body"

\* this step is a lookup of k in session s
LookupStep(s, k) ==
  /\ log'[s] # log[s]
  /\ Len(log'[s]) = 1
  /\ log'[s][1].op \in Lookups
  /\ log'[s][1].args = <<Msg(<<k>>)>>

\* C5: one Validator per (session, name): a lookup of a name that has a
\* validator returns that very validator, whichever source is asked, and
\* changes neither the cache, the store nor the validator.
C5_OneValidatorPerName ==
  /\ [](\A i, j \in 1..Len(heap) :
          (heap[i].key = heap[j].key /\ heap[i].sess = heap[j].sess) => i = j)
  /\ [][\A s \in Sessions : \A k \in Names :
          validators[s][k] # 0 =>
            /\ validators'[s][k] = validators[s][k]
            /\ (LookupStep(s, k) =>
                  /\ log'[s][1].id = validators[s][k]
                  /\ cur'[s] = validators[s][k]
                  /\ vals' = vals
                  /\ heap' = heap)]_vars

\* a second lookup, through another source, finds the store entry as the
\* chain calls after the first lookup left it
C5_Witness ==
  \E s \in Sessions :
    /\ Len(log[s]) = 1
    /\ log[s][1].op = "validateQuery" /\ ~log[s][1].created
    /\ log[s][1].args = <<Msg(<<"age">>)>>
    /\ raw[s]["body"]["age"] = Str(<<"1","7">>)
    /\ vals[s]["age"] = Num(17)

\* C6: a first lookup seeds the store entry with the value it already holds
\* if one is set, otherwise with the raw value of the requested source; no
\* lookup overwrites a value that is set.
C6_Seed ==
  \A s \in Sessions :
    (Len(log[s]) >= 1 /\ log[s][1].op \in Lookups) =>
      LET e == log[s][1]
          k == heap[e.id].key
      IN  /\ (e.created /\ e.pre = Undef => e.post = raw[s][SourceOf(e.op)][k])
          /\ (e.pre # Undef => e.post = e.pre)
          /\ (Len(log[s]) = 1 => vals[s][k] = e.post)

C6_Witness ==
  \E s \in Sessions :
    /\ Len(log[s]) = 1
    /\ log[s][1].created /\ log[s][1].pre = Num(5)
    /\ raw[s][SourceOf(log[s][1].op)][heap[log[s][1].id].key] \notin {Undef, Num(5)}
    /\ vals[s][heap[log[s][1].id].key] = Num(5)

\* C7: every call of a chain reads what the call before it left, only the
\* last call of a chain can have raised, and a raising call leaves the store
\* entry as it found it; so with raw age "17",
\* validateBody('age').required().toInt().gte(18) ends in a ValidationError
\* for 'age' raised by gte, with the store holding the integer 17.
C7_ChainReadsWrites ==
  \A s \in Sessions :
    /\ \A i \in 1..(Len(log[s]) - 1) :
         log[s][i].out = "return" /\ log[s][i + 1].pre = log[s][i].post
    /\ (Len(log[s]) >= 1 /\ log[s][Len(log[s])].out = "throw") =>
         /\ cur[s] = 0
         /\ vals[s]["age"] = log[s][Len(log[s])].pre
    /\ ( /\ Len(log[s]) >= 3
         /\ log[s][1].op = "validateBody" /\ log[s][1].post = Str(<<"1","7">>)
         /\ log[s][2].op = "required"
         /\ log[s][3].op = "toInt" ) =>
         /\ log[s][3].out = "return" /\ log[s][3].post = Num(17)
         /\ vals[s]["age"] = Num(17)
         /\ (Len(log[s]) >= 4 /\ log[s][4].op = "gte" /\ log[s][4].args[1] = Num(18)) =>
              /\ Len(log[s]) = 4
              /\ log[s][4].pre = Num(17)
              /\ log[s][4].out = "throw"
              /\ log[s][4].err.name = "ValidationError"
              /\ log[s][4].err.key = Msg(<<"age">>)

C7_Witness ==
  \E s \in Sessions :
    /\ Len(log[s]) = 4
    /\ log[s][1].op = "validateBody" /\ log[s][1].post = Str(<<"1","7">>)
    /\ log[s][2].op = "required" /\ log[s][3].op = "toInt"
    /\ log[s][4].op = "gte" /\ log[s][4].args[1] = Num(18)
    /\ log[s][4].out = "throw" /\ vals[s]["age"] = Num(17) /\ cur[s] = 0

\* the string form of x is an integer literal, and it parses into the safe range
IntegerParseable(x) == IntPattern(vToString(x))
ParsesInRange(x) == isSafeInteger(parseInt(x))

BigElement == Str(<<"9","0","0","7","1","9","9","2","5","4","7","4","0","9","9","2">>)

\* C8: toInts is all-or-nothing: on an array with an element that is not
\* integer-parseable or parses outside the safe range it raises a
\* ValidationError and the store entry stays as it was; otherwise the entry
\* becomes the array of the integers, in the same order.
C8_ToIntsAllOrNothing ==
  \A s \in Sessions : \A i \in 1..Len(log[s]) :
    LET e == log[s][i]
        bad == \E j \in 1..Len(e.pre.a) :
                 ~IntegerParseable(e.pre.a[j]) \/ ~ParsesInRange(e.pre.a[j])
    IN  (e.op = "toInts" /\ ~e.skipped /\ IsArray(e.pre)) =>
          /\ (bad => /\ e.out = "throw"
                     /\ e.err.name = "ValidationError"
                     /\ e.post = e.pre)
          /\ (~bad => /\ e.out = "return"
                      /\ IsArray(e.post)
                      /\ Len(e.post.a) = Len(e.pre.a)
                      /\ \A j \in 1..Len(e.pre.a) :
                           /\ NumberIsInteger(e.post.a[j])
                           /\ ToChars(e.post.a[j]) = ToChars(parseInt(e.pre.a[j])))
          /\ (e.pre = Arr(<<Str(<<"1">>), Str(<<"x">>), Str(<<"3">>)>>) =>
                e.out = "throw" /\ e.post = e.pre)
          /\ (e.pre = Arr(<<Str(<<"1">>), BigElement>>) =>
                e.out = "throw" /\ e.post = e.pre)
          /\ (e.pre = Arr(<<Str(<<"1">>), Str(<<"2">>), Str(<<"3">>)>>) =>
                e.post = Arr(<<Num(1), Num(2), Num(3)>>))
          /\ (i = Len(log[s]) => vals[s][heap[e.id].key] = e.post)

C8_Witness ==
  \E s \in Sessions :
    /\ Len(log[s]) = 2
    /\ log[s][2].op = "toInts" /\ ~log[s][2].skipped
    /\ log[s][2].pre = Arr(<<Str(<<"1">>), BigElement>>)
    /\ log[s][2].out = "throw"
    /\ vals[s]["age"] = log[s][2].pre

\* the methods that take no tip
NoTip == {"optional", "defaultTo", "toArray", "uniq", "toBoolean", "toString",
          "trim", "tap"}

\* the tip the caller passed to the call e (isUuid: lines 486-501)
TipOf(e) ==
  IF e.op \in NoTip THEN Undef
  ELSE IF e.op = "isUuid" /\ e.args[2] = Undef /\ IsString(e.args[1])
          /\ e.args[1].s \notin VersionTags
  THEN e.args[1]
  ELSE e.args[Len(e.args)]

\* the ValidationError of e was thrown by the caller's own function and let
\* through by the method
ThrownByCaller(e) ==
  e.op \in {"checkPred", "checkNotPred", "defaultTo"}
    /\ e.args[1] = Fn("throwsValidationError")

\* the ValidationError of e is for e's validator, with the caller's tip if
\* one was passed and a default text naming the key otherwise
ErrorAsDocumented(e) ==
  /\ e.err.key = Msg(<<heap[e.id].key>>)
  /\ (Truthy(TipOf(e)) => e.err.message = TipOf(e))
  /\ (~Truthy(TipOf(e)) =>
        /\ IsString(e.err.message)
        /\ \E j \in 1..Len(e.err.message.s) : e.err.message.s[j] = heap[e.id].key)

RaisedValidationError(e) ==
  e.out = "throw" /\ e.err.name = "ValidationError" /\ ~ThrownByCaller(e)

\* C9: every ValidationError a chain method raises carries the validator's
\* name as its key and, as its message, the caller's tip when one was passed
\* and the method's default message otherwise.
C9_ErrorKeyAndMessage ==
  \A e \in Calls : RaisedValidationError(e) => ErrorAsDocumented(e)

\* the same for every method but isAlphanumeric
C9_ExceptIsAlphanumeric ==
  \A e \in Calls :
    (RaisedValidationError(e) /\ e.op # "isAlphanumeric") => ErrorAsDocumented(e)

\* isAlphanumeric on a non-string: the message is the validator object
C9_IsAlphanumericMessage ==
  \A e \in Calls :
    (e.op = "isAlphanumeric" /\ ~e.skipped /\ ~IsString(e.pre)) =>
      /\ e.out = "throw" /\ e.err.name = "ValidationError"
      /\ e.err.message = Obj("Validator")

\* C10: tap(f) stores f(value) when f returns; when f raises a
\* ValidationError, tap raises one for this validator with the default
\* message, not the inner one; any other fault of f propagates as it is; a
\* raising tap leaves the store entry as it was.
C10_Tap ==
  \A s \in Sessions : \A i \in 1..Len(log[s]) :
    LET e == log[s][i]
        called == ApplyFn(e.args[1], e.pre)
    IN  (e.op = "tap" /\ ~e.skipped /\ IsFunction(e.args[1])) =>
          /\ (called.out = "return" => e.out = "return" /\ e.post = called.val)
          /\ (called.out = "throw" => e.out = "throw" /\ e.post = e.pre)
          /\ ((called.out = "throw" /\ called.err.name = "ValidationError") =>
                /\ e.err.name = "ValidationError"
                /\ e.err.key = Msg(<<heap[e.id].key>>)
                /\ e.err.message = Msg(<<"Invalid value for ", heap[e.id].key>>)
                /\ e.err.message # called.err.message)
          /\ ((called.out = "throw" /\ called.err.name # "ValidationError") =>
                e.err = called.err)
          /\ (i = Len(log[s]) => vals[s][heap[e.id].key] = e.post)

C10_Witness ==
  \E s \in Sessions :
    /\ Len(log[s]) = 2
    /\ log[s][2].op = "tap" /\ ~log[s][2].skipped
    /\ log[s][2].args = <<Fn("throwsValidationError")>>
    /\ log[s][2].pre = Str(<<"1","7">>)
    /\ log[s][2].out = "throw"
    /\ vals[s]["age"] = Str(<<"1","7">>)

FormatValidators == {"isAlpha", "isAlphanumeric", "isNumeric", "isAscii", "isBase64",
                     "isEmail", "isHexColor", "isUuid"}

\* the call e of isUuid has one of the shapes (version, tip), (tip),
\* (version), () of lines 486-489
UuidShape(e) ==
  \/ IsString(e.args[1]) /\ e.args[1].s \in VersionTags
  \/ IsString(e.args[1]) /\ e.args[2] = Undef
  \/ e.args[1] = Undef /\ e.args[2] = Undef

\* e is a format validator executed on a present value that is not a string
OnNonString(e) ==
  /\ e.op \in FormatValidators
  /\ ~e.skipped
  /\ e.pre # Undef /\ ~IsString(e.pre)
  /\ (e.op = "isUuid" => UuidShape(e))

\* C11: a format validator (isAlpha, isAlphanumeric, isNumeric, isAscii,
\* isBase64, isEmail, isHexColor, isUuid) executed on a present value that is
\* not a string raises a ValidationError instead of passing.
C11_FormatRequiresString ==
  \A e \in Calls :
    OnNonString(e) => e.out = "throw" /\ e.err.name = "ValidationError"

\* what the code does: the six validators that call isString first raise
C11_WithIsStringRaises ==
  \A e \in Calls :
    (OnNonString(e) /\ e.op \notin {"isAscii", "isUuid"}) =>
      e.out = "throw" /\ e.err.name = "ValidationError"

\* what the code does: isAscii and isUuid test the string form of the value,
\* so they pass exactly when that text matches
C11_NoIsStringTestsText ==
  \A e \in Calls :
    /\ (OnNonString(e) /\ e.op = "isAscii") =>
         (e.out = "return" <=> AllIn(ToChars(e.pre), Ascii))
    /\ (OnNonString(e) /\ e.op = "isUuid") =>
         (e.out = "return" <=>
            UuidPattern(ToChars(e.pre),
                        IF e.args[1] # Undef /\ e.args[1].s \in VersionTags
                        THEN VersionName(e.args[1].s) ELSE "all"))

\* isAscii passes the number 5
C11_Reached ==
  \E e \in Calls : e.op = "isAscii" /\ e.pre = Num(5) /\ e.out = "return"

\* isUuid passes an array holding a UUID
C11_ReachedUuid ==
  \E e \in Calls : e.op = "isUuid" /\ IsArray(e.pre) /\ e.out = "return"

\* the version pattern isUuid(version, tip) is documented to test (lines
\* 486-501): the first argument when it is a tag, 'all' otherwise
ResolvedVersion(e) ==
  IF IsString(e.args[1]) /\ e.args[1].s \in VersionTags
  THEN VersionName(e.args[1].s) ELSE "all"

\* the tip after that resolution: the first argument when it is a text that
\* is not a tag and stands alone
ResolvedTip(e) ==
  IF IsString(e.args[1]) /\ e.args[1].s \notin VersionTags /\ e.args[2] = Undef
  THEN e.args[1] ELSE e.args[2]

\* the arguments of e are texts or left out
TextArguments(e) ==
  \A i \in 1..Len(e.args) : IsString(e.args[i]) \/ e.args[i] = Undef

\* C12: every call of isUuid tests the value against the one pattern its
\* arguments resolve to (the first argument when it is one of v3, v4, v5,
\* all; 'all' otherwise, the first argument then being the tip) and either
\* returns the validator or raises a ValidationError, never any other fault.
C12_IsUuidResolvesArguments ==
  \A e \in Calls :
    (e.op = "isUuid" /\ ~e.skipped /\ TextArguments(e)) =>
      /\ UuidPattern(ToChars(e.pre), ResolvedVersion(e)) => e.out = "return"
      /\ ~UuidPattern(ToChars(e.pre), ResolvedVersion(e)) =>
           e.out = "throw" /\ e.err.name = "ValidationError"

\* what the code does: a first argument that is not a tag is taken as the
\* tip only when no second argument is passed; passed together with a tip
\* it stays the version, and re[version] is undefined
C12_NonTagWithTipFaults ==
  \A e \in Calls :
    (e.op = "isUuid" /\ ~e.skipped /\ ~UuidShape(e)) =>
      e.out = "throw" /\ e.err = TypeError /\ e.post = e.pre

C12_Reached ==
  \E e \in Calls :
    /\ e.op = "isUuid" /\ e.args = <<Msg(<<"not a uuid">>), Msg(<<"tip">>)>>
    /\ e.pre = Str(UuidChars("4", "8"))
    /\ e.err = TypeError

\* what the code does for the shapes (version, tip), (tip), (version), ()
\* of lines 486-489: the resolved pattern is tested, and a failure is a
\* ValidationError carrying the resolved tip
C12_IsUuidShapes ==
  \A e \in Calls :
    (e.op = "isUuid" /\ ~e.skipped /\ UuidShape(e)) =>
      /\ UuidPattern(ToChars(e.pre), ResolvedVersion(e)) =>
           e.out = "return" /\ e.post = e.pre
      /\ ~UuidPattern(ToChars(e.pre), ResolvedVersion(e)) =>
           /\ e.out = "throw" /\ e.err.name = "ValidationError"
           /\ e.err.key = Msg(<<heap[e.id].key>>)
           /\ (ResolvedTip(e) # Undef => e.err.message = ResolvedTip(e))
           /\ e.post = e.pre

\* isUuid('not a uuid') on a version 3 UUID passes (pattern 'all') and
\* isUuid('v4') on the same value has raised a ValidationError
C12_Witness ==
  \E s \in Sessions :
    /\ Len(log[s]) = 2
    /\ log[s][2].op = "isUuid" /\ ~log[s][2].skipped
    /\ log[s][2].pre = Str(UuidChars("3", "0"))
    /\ \/ log[s][2].args = <<Msg(<<"not a uuid">>), Undef>> /\ log[s][2].out = "return"
       \/ /\ log[s][2].args = <<Str(<<"v","4">>), Undef>>
          /\ log[s][2].err.name = "ValidationError"

\* C13: toString() never raises and, when executed, replaces the store entry
\* with the string form of the value for every present value (falsy ones
\* such as 0 and false included; null has no string form and is left out)
\* and with the empty string when the value is absent.
C13_ToString ==
  \A e \in Calls :
    (e.op = "toString" /\ e.pre # Null) =>
      /\ e.out = "return"
      /\ (~e.skipped /\ e.pre # Undef) => e.post = Str(ToChars(e.pre))
      /\ (~e.skipped /\ e.pre = Undef) => e.post = Str(<<>>)

\* what the code does: this.val() && this.val().toString() || '' gives the
\* string form for a truthy value and '' for every falsy one
C13_FalsyToEmpty ==
  \A e \in Calls :
    (e.op = "toString" /\ ~e.skipped) =>
      /\ e.out = "return"
      /\ Truthy(e.pre) => e.post = Str(ToChars(e.pre))
      /\ ~Truthy(e.pre) => e.post = Str(<<>>)

\* toString() has turned false, and 0, into ''
C13_Reached ==
  \E e \in Calls :
    e.op = "toString" /\ e.pre \in {Bool(FALSE), Num(0)} /\ e.post = Str(<<>>)

\* C14: toArray(), when executed, never raises and stores [] for an absent
\* value, [x] for a value x that is not an array and the same array for an
\* array; applying it again to what it stored stores the same value.
C14_ToArray ==
  \A e \in Calls :
    (e.op = "toArray" /\ ~e.skipped) =>
      /\ e.out = "return"
      /\ e.pre = Undef => e.post = Arr(<<>>)
      /\ (e.pre # Undef /\ ~IsArray(e.pre)) => e.post = Arr(<<e.pre>>)
      /\ IsArray(e.pre) => e.post = e.pre
      /\ toArray([id |-> e.id, key |-> heap[e.id].key, val |-> e.post,
                  opt |-> e.postOpt]).val = e.post

\* toArray() executed a second time, on the [5] a first toArray() stored
C14_Witness ==
  \E s \in Sessions :
    /\ Len(log[s]) = 2
    /\ log[s][2].op = "toArray" /\ ~log[s][2].skipped
    /\ log[s][2].pre = Arr(<<Num(5)>>)
    /\ log[s][2].post = Arr(<<Num(5)>>)
    /\ vals[s]["age"] = Arr(<<Num(5)>>)

Comparisons == {"gt", "gte", "lt", "lte"}

\* the comparison the method is documented to ensure (lines 127, 138, 149,
\* 160): value > other, value >= other, value < other, value <= other
Ensured(e) ==
  CASE e.op = "gt" -> NumLess(e.args[1], e.pre)
    [] e.op = "gte" -> NumLeq(e.args[1], e.pre)
    [] e.op = "lt" -> NumLess(e.pre, e.args[1])
    [] OTHER -> NumLeq(e.pre, e.args[1])

\* e is a comparison executed on a value and an operand that are numbers
OnNumbers(e) == IsNumber(e.pre) /\ IsNumber(e.args[1])

\* the precondition part: not a ValidationError, nothing stored
PreconditionFault(e) ==
  e.out = "throw" /\ e.err = AssertionError /\ e.post = e.pre

\* C15: gt, gte, lt and lte executed on a value or an operand that is not a
\* number raise a precondition fault that is not a ValidationError and leave
\* the store unchanged; on two numbers they raise a ValidationError exactly
\* when the comparison fails.
C15_Comparisons ==
  \A e \in Calls :
    (e.op \in Comparisons /\ ~e.skipped) =>
      /\ ~OnNumbers(e) => PreconditionFault(e)
      /\ OnNumbers(e) =>
           /\ ~Ensured(e) => e.out = "throw" /\ e.err.name = "ValidationError"
           /\ Ensured(e) => e.out = "return"
           /\ e.post = e.pre

\* what the code does: the claim, for every value but NaN
C15_ExceptNaN ==
  \A e \in Calls :
    (e.op \in Comparisons /\ ~e.skipped /\ ~IsNaN(e.pre)) =>
      /\ ~OnNumbers(e) => PreconditionFault(e)
      /\ OnNumbers(e) =>
           /\ ~Ensured(e) => e.out = "throw" /\ e.err.name = "ValidationError"
           /\ Ensured(e) => e.out = "return"
           /\ e.post = e.pre

\* what the code does: on NaN each method tests the opposite comparison,
\* which is false too, and returns
C15_NaNPasses ==
  \A e \in Calls :
    (e.op \in Comparisons /\ ~e.skipped /\ IsNaN(e.pre) /\ IsNumber(e.args[1])) =>
      ~Ensured(e) /\ e.out = "return"

\* gt(0) has returned on NaN
C15_Reached ==
  \E e \in Calls :
    e.op = "gt" /\ e.pre = NaN /\ e.args[1] = Num(0) /\ e.out = "return"

\* gt(0) has raised the precondition fault on the text '17'
C15_ReachedFault ==
  \E e \in Calls :
    e.op = "gt" /\ e.pre = Str(<<"1","7">>) /\ e.args[1] = Num(0)
      /\ e.err = AssertionError

\* the statement s has just executed is a call of a session-level helper
IsHelperCall(s) == Len(log[s]) = 1 /\ log[s][1].op \in Helpers

\* C16: validate/check(result, tip) raises a ValidationError with key null
\* and message tip exactly when result is falsy, validateNot/checkNot(result,
\* tip) exactly when result is truthy; otherwise they return; a helper call
\* leaves the store and the validator cache (the validators and their flags)
\* unchanged.
C16_SessionHelpers ==
  /\ [](\A s \in Sessions :
          IsHelperCall(s) =>
            LET e == log[s][1]
                raises == IF e.op = "validate" THEN ~Truthy(e.args[1])
                          ELSE Truthy(e.args[1])
            IN  /\ raises => e.out = "throw" /\ e.err = ValidationError(Null, e.args[2])
                /\ ~raises => e.out = "return" /\ e.err = NoError)
  /\ [][\A s \in Sessions :
          (log'[s] # log[s] /\ Len(log'[s]) = 1 /\ log'[s][1].op \in Helpers) =>
            vals' = vals /\ validators' = validators /\ heap' = heap]_vars

\* validate(0, 'tip') has raised after age was looked up and converted: the
\* store still holds 17 and the cache still holds the validator
C16_Witness ==
  \E s \in Sessions :
    /\ IsHelperCall(s)
    /\ log[s][1].op = "validate" /\ log[s][1].args = <<Num(0), Msg(<<"tip">>)>>
    /\ log[s][1].out = "throw"
    /\ vals[s]["age"] = Num(17)
    /\ validators[s]["age"] # 0

\* every call and helper call of the expressions in evaluation
Steps == UNION {{log[s][i] : i \in 1..Len(log[s])} : s \in Sessions}

\* a message that is defined and not the empty text
Populated(message) == message # Undef /\ message # Str(<<>>)

\* C17: every ValidationError the engine raises, from a chain method or from
\* a session-level helper, with or without a tip, has a populated message;
\* its key is the validator's name for a chain method and null for a helper.
C17_ErrorsPopulated ==
  \A e \in Steps :
    /\ (e.op \in Helpers /\ e.out = "throw") =>
         e.err.name = "ValidationError" /\ e.err.key = Null /\ Populated(e.err.message)
    /\ (IsCall(e) /\ RaisedValidationError(e)) =>
         e.err.key = Msg(<<heap[e.id].key>>) /\ Populated(e.err.message)

\* what the code does: a chain method's error is keyed by the validator's
\* name and has a populated message, throwError supplying a default
C17_ChainErrorsPopulated ==
  \A e \in Calls :
    RaisedValidationError(e) =>
      e.err.key = Msg(<<heap[e.id].key>>) /\ Populated(e.err.message)

\* what the code does: a helper's error has key null and the tip as its
\* message, undefined when no tip was passed
C17_HelperMessageIsTip ==
  \A e \in Steps :
    (e.op \in Helpers /\ e.out = "throw") =>
      e.err.key = Null /\ e.err.message = e.args[2]

\* validate(false) without a tip has raised an error whose message is undefined
C17_Reached ==
  \E e \in Steps :
    /\ e.op = "validate" /\ e.args = <<Bool(FALSE), Undef>>
    /\ e.out = "throw" /\ e.err.message = Undef

\* the validators constructed for the request t keep their fields in the step
SameValidators(t) ==
  \A id \in 1..Len(heap) : heap[id].sess = t => heap'[id] = heap[id]

\* the store, the cache and the validators of the request t are not changed
\* by the step
Untouched(t) ==
  /\ started'[t] = started[t]
  /\ vals'[t] = vals[t]
  /\ validators'[t] = validators[t]
  /\ SameValidators(t)

\* C18: requests are isolated under any interleaving: the middleware gives
\* each its own empty store and its own empty cache, a lookup or a chain
\* call of one request changes no other request's store, cache or
\* validators, and the validators two requests hold for the same name are
\* distinct objects, each owned by its request, with flags of their own.
C18_SessionsIsolated ==
  /\ [](\A s \in Sessions : \A k \in Names :
          validators[s][k] # 0 =>
            /\ heap[validators[s][k]].sess = s
            /\ heap[validators[s][k]].key = k
            /\ \A t \in Sessions \ {s} : validators[t][k] # validators[s][k])
  /\ [][\E s \in Sessions :
          /\ \A t \in Sessions \ {s} : Untouched(t)
          /\ (~started[s] /\ started'[s]) =>
               /\ vals'[s] = NoVals
               /\ validators'[s] = [k \in Names |-> 0]]_vars

\* requests 1 and 2 both looked up age: request 1 armed its validator on an
\* absent value, request 2 converted its '17'; the two validators differ
\* and so do their flags and store entries
C18_Witness ==
  /\ validators[1]["age"] # 0 /\ validators[2]["age"] # 0
  /\ validators[1]["age"] # validators[2]["age"]
  /\ heap[validators[1]["age"]].opt
  /\ ~heap[validators[2]["age"]].opt
  /\ vals[1]["age"] = Undef
  /\ vals[2]["age"] = Num(17)

\* C19: a chain method that raises, whether a ValidationError or any other
\* fault, leaves the store entry as it was before the call, for every
\* built-in method (toInt, toFloat, fromJson, toInts and tap included).
C19_RaiseLeavesStore ==
  \A s \in Sessions : \A i \in 1..Len(log[s]) :
    LET e == log[s][i]
    IN  (IsCall(e) /\ e.out = "throw") =>
          /\ e.post = e.pre
          /\ (i = Len(log[s]) => vals[s][heap[e.id].key] = e.pre)

\* toInt() has raised on an integer text out of the safe range, after the
\* parse: the store still holds the text
C19_Witness ==
  \E s \in Sessions :
    /\ Len(log[s]) = 2
    /\ log[s][2].op = "toInt" /\ ~log[s][2].skipped
    /\ log[s][2].pre =
         Str(<<"9","0","0","7","1","9","9","2","5","4","7","4","0","9","9","2">>)
    /\ log[s][2].out = "throw" /\ log[s][2].err.name = "ValidationError"
    /\ vals[s]["age"] = log[s][2].pre

\* the step is a call of the chain expression of s, made on the validator id
CallOn(s, id) ==
  /\ Len(log'[s]) = Len(log[s]) + 1
  /\ IsCall(log'[s][Len(log'[s])])
  /\ log'[s][Len(log'[s])].id = id

\* the call the step makes in s
Made(s) == log'[s][Len(log'[s])]

\* for the validator id: its flag is set only if its store entry is absent
FlagMeansAbsent(id) ==
  heap[id].opt => vals[heap[id].sess][heap[id].key] = Undef

\* C20: a validator's optional flag is false when the validator is
\* constructed; it becomes true only in optional() called on an absent
\* value, and false only in a wrapped method finding the value present, so a
\* cleared flag stays false until the next optional() on an absent value;
\* and as long as the store is written by validator methods only, flag set
\* implies the store entry is absent after every optional() or wrapped
\* method that returns: each such call reestablishes it from a state where
\* it held.
C20_FlagLifecycle ==
  /\ [](\A s \in Sessions : \A i \in 1..Len(log[s]) :
          log[s][i].created => ~log[s][i].postOpt)
  /\ [][\A id \in 1..Len(heap) :
          LET s == heap[id].sess
          IN  /\ (~heap[id].opt /\ heap'[id].opt) =>
                   /\ CallOn(s, id)
                   /\ Made(s).op = "optional" /\ Made(s).pre = Undef
              /\ (heap[id].opt /\ ~heap'[id].opt) =>
                   /\ CallOn(s, id)
                   /\ IsWrappedCall(Made(s)) /\ Made(s).pre # Undef
              /\ (/\ CallOn(s, id)
                  /\ Made(s).op # "required" /\ Made(s).out = "return"
                  /\ FlagMeansAbsent(id)) => FlagMeansAbsent(id)']_vars

\* the invariant those steps maintain, in a specification whose store is
\* written by validator methods only
C20_FlagMeansAbsent == \A id \in 1..Len(heap) : FlagMeansAbsent(id)

\* optional() called on a cached validator whose value a conversion made
\* absent: the flag, clear before, is set and the store entry is absent
C20_Witness ==
  \E s \in Sessions :
    /\ Len(log[s]) = 2
    /\ ~log[s][1].created
    /\ raw[s]["body"]["age"] # Undef
    /\ log[s][2].op = "optional" /\ log[s][2].pre = Undef
    /\ ~log[s][2].preOpt /\ log[s][2].postOpt
    /\ heap[log[s][2].id].opt
    /\ vals[s]["age"] = Undef

====
